---- MODULE Spec2Model ----
(***************************************************************************)
(* Model of the A-B loop audio player: the AudioPlayer class (playback     *)
(* controller), the HTMLMediaElement it wraps (the media capability), and  *)
(* the Controls class: its loop markers and its progress bar, which the    *)
(* user drags to scrub.                                                    *)
(*                                                                         *)
(* Every method of AudioPlayer is an operator from a state record to a     *)
(* state record, so that a method calling other methods is their           *)
(* composition, line by line.  An action applies one command, one timer    *)
(* callback or one capability step to the current state.  Promise          *)
(* continuations (the code after an await) run as microtasks at the end of *)
(* the task that settles the promise, and are part of that action.         *)
(***************************************************************************)
EXTENDS Integers, Sequences, FiniteSets, TLC

\* ---- bounds ----
MaxTime == 2
MaxDuration == 2
MaxTasks == 2
MaxPending == 1
MaxLoads == 1
MaxHandles == 2
BarWidth == 2
MaxObservers == 3
MaxOverlap == 2

\* ---- program constants ----
NULL == -1

\* Playback rates are kept in quarters: the rate r is the integer 4 * r.
MinRate == 1
MaxRate == 8
DefaultRate == 4
speedOptions == <<1, 2, 4, 5, 6, 8>>

Times == 0..MaxTime
Durations == 1..MaxDuration
TimeArgs == Times \cup {NULL}

\* AudioPlayer: isPlaying .. loopCheckInterval are its fields; listening says
\*   whether eventListeners still holds the listeners registered at start-up
\*   (destroy clears them); timers is the set of live setInterval ids.
\* Audio element: audioPaused, audioTime, audioDuration, audioRate are its
\*   paused, currentTime, duration and playbackRate; audioSrc is "none", "loading", "emptysrc" (src
\*   set to '' by destroy), "ready" or "failed"; tasks is its queue of events
\*   to dispatch; pendingPlay counts play() promises not yet settled;
\*   loadWaiters counts loadAudio calls waiting for loadedmetadata or error.
\*   resource holds currentUrl and currentFile (NULL while never assigned;
\*   currentUrl is 0 for a URL string and n >= 1 for the n-th object URL) and
\*   the object URLs created so far and not revoked.
\*   observers holds the callbacks registered with on() after start-up, each
\*   with its event and whether it throws, the callbacks the last step
\*   invoked, and whether an exception left emit.
\* Controls: controls holds isDragging, the isMouseDown flag of its progress
\*   bar listeners, the width of the progress fill and the time shown in the
\*   current-time label.
\* History: emitted is what the last step delivered to listeners, each event
\*   with the loop state a listener reads during the callback; justLooped
\*   says a loop check has seeked since the last timeupdate was handled;
\*   stopIssued and lastOp record the commands issued; scrub records the
\*   scrub gesture in progress and the player.seek calls it has made.
VARIABLES
    isPlaying, currentTime, duration,
    loopA, loopB, isLooping, loopCheckInterval,
    listening, timers,
    audioPaused, audioTime, audioDuration, audioSrc, tasks, pendingPlay,
    loadWaiters, resource, controls,
    emitted, justLooped, stopIssued, lastOp, scrub,
    playbackRate, audioRate, observers

vars == <<isPlaying, currentTime, duration, loopA, loopB, isLooping,
          loopCheckInterval, listening, timers, audioPaused, audioTime,
          audioDuration, audioSrc, tasks, pendingPlay, loadWaiters,
          resource, controls, emitted, justLooped, stopIssued, lastOp, scrub,
          playbackRate, audioRate, observers>>

\* The current state as one record.
Cur ==
    [isPlaying |-> isPlaying, currentTime |-> currentTime, duration |-> duration,
     loopA |-> loopA, loopB |-> loopB, isLooping |-> isLooping,
     loopCheckInterval |-> loopCheckInterval, listening |-> listening,
     timers |-> timers, audioPaused |-> audioPaused, audioTime |-> audioTime,
     audioDuration |-> audioDuration, audioSrc |-> audioSrc, tasks |-> tasks,
     pendingPlay |-> pendingPlay, loadWaiters |-> loadWaiters,
     resource |-> resource, controls |-> controls, scrub |-> scrub,
     playbackRate |-> playbackRate, audioRate |-> audioRate,
     observers |-> [observers EXCEPT !.invoked = <<>>, !.escaped = FALSE],
     emitted |-> <<>>, justLooped |-> justLooped,
     microtasks |-> <<>>]

\* Whether the last command that governs loop enforcement was one that stops
\* it (pause, destroy, clearLoop, toggleLoop to off) rather than one that may
\* start it (play, toggleLoop to on).
StopIssuedAfter(s, op) ==
    CASE op \in {"pause", "destroy", "clearLoop"} -> TRUE
      [] op \in {"loopCheckPause", "loopCheckClear"}
            /\ \E i \in 1..Len(s.emitted) : s.emitted[i].ev = "looped" -> TRUE
      [] op = "play" -> FALSE
      [] op = "togglePlayPause" -> isPlaying
      [] op = "toggleLoop" /\ isLooping /\ ~s.isLooping -> TRUE
      [] op = "toggleLoop" /\ ~isLooping /\ s.isLooping -> FALSE
      [] OTHER -> stopIssued

\* The state after an operation op(time) that produced record s.
Commit(s, op, time) ==
    /\ isPlaying' = s.isPlaying
    /\ currentTime' = s.currentTime
    /\ duration' = s.duration
    /\ loopA' = s.loopA
    /\ loopB' = s.loopB
    /\ isLooping' = s.isLooping
    /\ loopCheckInterval' = s.loopCheckInterval
    /\ listening' = s.listening
    /\ timers' = s.timers
    /\ audioPaused' = s.audioPaused
    /\ audioTime' = s.audioTime
    /\ audioDuration' = s.audioDuration
    /\ audioSrc' = s.audioSrc
    /\ tasks' = s.tasks
    /\ pendingPlay' = s.pendingPlay
    /\ loadWaiters' = s.loadWaiters
    /\ resource' = s.resource
    /\ controls' = s.controls
    /\ scrub' = s.scrub
    /\ playbackRate' = s.playbackRate
    /\ audioRate' = s.audioRate
    /\ observers' = s.observers
    /\ emitted' = s.emitted
    /\ justLooped' = s.justLooped
    /\ stopIssued' = StopIssuedAfter(s, op)
    /\ lastOp' = [op |-> op, time |-> time]

\* ---- utilities ----
Min(a, b) == IF a < b THEN a ELSE b
Max(a, b) == IF a > b THEN a ELSE b

clamp(value, min, max) == Min(Max(value, min), max)

\* JavaScript's conversion of null to a number in a comparison or in Math.max.
ToNumber(x) == IF x = NULL THEN 0 ELSE x

\* ---- AudioPlayer.emit: deliver to the registered listeners, which see the
\* ---- controller's state as it is at the time of the call
Snapshot(s, event, data) ==
    [ev |-> event, data |-> data,
     loopA |-> s.loopA, loopB |-> s.loopB, isLooping |-> s.isLooping]

\* The callbacks registered with on() for an event, in the order of
\* registration, as their positions in observers.registered.
RECURSIVE callbacksFrom(_, _, _)
callbacksFrom(s, event, i) ==
    IF i > Len(s.observers.registered) THEN <<>>
    ELSE IF s.observers.registered[i].ev = event
         THEN <<i>> \o callbacksFrom(s, event, i + 1)
         ELSE callbacksFrom(s, event, i + 1)

\* Mutant of emit: no try/catch around the callback; the first callback that
\* throws ends the forEach and the exception leaves emit.
emit_NoCatch(s, event, data) ==
    IF s.listening
    THEN LET cbs == callbacksFrom(s, event, 1)
             thrown == {k \in 1..Len(cbs) : s.observers.registered[cbs[k]].throws}
             last == IF thrown = {} THEN Len(cbs)
                     ELSE CHOOSE k \in thrown : \A j \in thrown : k <= j
         IN [s EXCEPT !.emitted = Append(@, Snapshot(s, event, data)),
                      !.observers.invoked = @ \o SubSeq(cbs, 1, last),
                      !.observers.escaped = @ \/ thrown # {}]
    ELSE s

\* emit: every callback of the event is called, in order; a callback that
\* throws is caught and logged, and the forEach goes on.
emit(s, event, data) ==
    IF s.listening
    THEN [s EXCEPT !.emitted = Append(@, Snapshot(s, event, data)),
                   !.observers.invoked = @ \o callbacksFrom(s, event, 1)]
    ELSE s

\* on(event, callback); throws says whether the callback throws when called.
on(s, event, throws) ==
    [s EXCEPT !.observers.registered = Append(@, [ev |-> event, throws |-> throws])]

\* ---- HTMLMediaElement (the capability) ----
Task(ev, n) == [ev |-> ev, n |-> n]

\* Consecutive timeupdate tasks read the same position: one is queued.
Enqueue(s, t) ==
    IF t.ev = "timeupdate" /\ s.tasks # <<>> /\ s.tasks[Len(s.tasks)].ev = "timeupdate"
    THEN s
    ELSE [s EXCEPT !.tasks = Append(@, t)]

HasEnded(s) == s.audioSrc = "ready" /\ s.audioTime = s.audioDuration

\* Assignment to audio.currentTime.
AudioSeek(s, t) ==
    IF s.audioSrc = "ready"
    THEN LET u == [s EXCEPT !.audioTime = clamp(t, 0, s.audioDuration)]
             v == Enqueue(u, Task("timeupdate", 0))
         IN IF ~u.audioPaused /\ HasEnded(u) /\ ~HasEnded(s)
            THEN Enqueue(v, Task("ended", 0))
            ELSE v
    ELSE [s EXCEPT !.audioTime = t]

\* Assignment to audio.playbackRate: a change of value queues ratechange.
AudioSetRate(s, rate) ==
    IF rate # s.audioRate
    THEN Enqueue([s EXCEPT !.audioRate = rate], Task("ratechange", 0))
    ELSE s

\* The media element load algorithm, run when src is assigned and by load():
\* queued tasks are removed, those that would settle play() promises settle
\* them at once; a playing element is paused without a pause event and its
\* pending play() promises are rejected; the position returns to 0 and the
\* playback rate to the default rate.
RECURSIVE SettleTasks(_)
SettleTasks(q) ==
    IF q = <<>> THEN <<>>
    ELSE LET t == Head(q)
             m == IF t.ev = "resolve" THEN [i \in 1..t.n |-> "playResolved"]
                  ELSE IF t.ev \in {"pause", "error"} THEN [i \in 1..t.n |-> "playRejected"]
                  ELSE <<>>
         IN m \o SettleTasks(Tail(q))

AudioLoad(s, src) ==
    LET s1 == [s EXCEPT !.microtasks = @ \o SettleTasks(s.tasks), !.tasks = <<>>]
        s2 == IF ~s1.audioPaused
              THEN [s1 EXCEPT !.audioPaused = TRUE,
                              !.microtasks = @ \o [i \in 1..s1.pendingPlay |-> "playRejected"],
                              !.pendingPlay = 0]
              ELSE s1
        s3 == IF s2.audioTime # 0
              THEN Enqueue([s2 EXCEPT !.audioTime = 0], Task("timeupdate", 0))
              ELSE s2
    IN AudioSetRate([s3 EXCEPT !.audioSrc = src, !.audioDuration = 0], DefaultRate)

\* audio.play(): the promise is rejected at once for an unsupported source;
\* otherwise a paused element starts and a play event is queued, and the
\* promise is resolved by a queued task once the element has data.
AudioPlay(s) ==
    IF s.audioSrc = "failed"
    THEN [s EXCEPT !.microtasks = Append(@, "playRejected")]
    ELSE LET s1 == IF HasEnded(s) THEN AudioSeek(s, 0) ELSE s
             s2 == IF s1.audioPaused
                   THEN Enqueue([s1 EXCEPT !.audioPaused = FALSE], Task("play", 0))
                   ELSE s1
         IN IF s2.audioSrc = "ready"
            THEN Enqueue([s2 EXCEPT !.pendingPlay = 0], Task("resolve", s2.pendingPlay + 1))
            ELSE [s2 EXCEPT !.pendingPlay = @ + 1]

\* audio.pause(): a playing element is paused, and a task is queued that fires
\* timeupdate and pause and rejects the pending play() promises.
AudioPause(s) ==
    IF ~s.audioPaused
    THEN Enqueue([s EXCEPT !.audioPaused = TRUE, !.pendingPlay = 0],
                 Task("pause", s.pendingPlay))
    ELSE s

\* ---- AudioPlayer ----
NewTimer(T) == CHOOSE i \in 1..(Cardinality(T) + 1) : i \notin T

stopLoopCheck(s) ==
    IF s.loopCheckInterval # NULL
    THEN [s EXCEPT !.timers = @ \ {s.loopCheckInterval}, !.loopCheckInterval = NULL]
    ELSE s

\* Mutant of startLoopCheck: the existing interval is not cleared first.
startLoopCheck_NoStop(s) ==
    IF s.isLooping /\ s.loopA # NULL /\ s.loopB # NULL
    THEN LET id == NewTimer(s.timers)
         IN [s EXCEPT !.timers = @ \cup {id}, !.loopCheckInterval = id]
    ELSE s

startLoopCheck(s) ==
    IF s.isLooping /\ s.loopA # NULL /\ s.loopB # NULL
    THEN LET t == stopLoopCheck(s)
             id == NewTimer(t.timers)
         IN [t EXCEPT !.timers = @ \cup {id}, !.loopCheckInterval = id]
    ELSE s

\* Mutant of seek: the stored currentTime is set at once.
seek_Eager(s, time) ==
    LET clampedTime == clamp(time, 0, s.duration)
    IN [AudioSeek(s, clampedTime) EXCEPT !.currentTime = clampedTime]

\* Mutant of seek: the time is passed to the capability unclamped.
seek_NoClamp(s, time) == AudioSeek(s, time)

seek(s, time) == AudioSeek(s, clamp(time, 0, s.duration))

\* Mutant of seekBy: the offset is taken from the capability's position.
seekBy_FromAudio(s, offset) == seek(s, s.audioTime + offset)

seekBy(s, offset) == seek(s, s.currentTime + offset)

\* Mutant of setPlaybackRate: the rate is stored and emitted as given.
setPlaybackRate_StoresRaw(s, rate) ==
    LET clampedRate == clamp(rate, MinRate, MaxRate)
        s1 == [AudioSetRate(s, clampedRate) EXCEPT !.playbackRate = rate]
    IN emit(s1, "ratechange", s1.playbackRate)

\* Mutant of setPlaybackRate: the capability is given the rate unclamped.
setPlaybackRate_RawToAudio(s, rate) ==
    LET clampedRate == clamp(rate, MinRate, MaxRate)
        s1 == [AudioSetRate(s, rate) EXCEPT !.playbackRate = clampedRate]
    IN emit(s1, "ratechange", s1.playbackRate)

setPlaybackRate(s, rate) ==
    LET clampedRate == clamp(rate, MinRate, MaxRate)
        s1 == [AudioSetRate(s, clampedRate) EXCEPT !.playbackRate = clampedRate]
    IN emit(s1, "ratechange", s1.playbackRate)

\* Mutant of loopCheckCallback: seeks to the start of the track, not to loopA.
loopCheckCallback_SeekStart(s) ==
    IF s.isLooping /\ s.currentTime >= ToNumber(s.loopB)
    THEN LET s1 == seek(s, 0)
             s2 == emit(s1, "looped", NULL)
         IN [s2 EXCEPT !.justLooped = TRUE]
    ELSE s

\* The callback given to setInterval in startLoopCheck.
loopCheckCallback(s) ==
    IF s.isLooping /\ s.currentTime >= ToNumber(s.loopB)
    THEN LET s1 == seek(s, ToNumber(s.loopA))
             s2 == emit(s1, "looped", NULL)
         IN [s2 EXCEPT !.justLooped = TRUE]
    ELSE s

play(s) == AudioPlay(s)

playResolved(s) == startLoopCheck(s)

playRejected(s) == emit(s, "error", NULL)

pause(s) == stopLoopCheck(AudioPause(s))

togglePlayPause(s) == IF s.isPlaying THEN pause(s) ELSE play(s)


\* Mutant of setLoopA: a time past loopB is rejected, not swapped.
setLoopA_Reject(s, time) ==
    LET t == IF time # NULL THEN time ELSE s.currentTime
    IN IF s.loopB # NULL /\ t > s.loopB
       THEN s
       ELSE emit([s EXCEPT !.loopA = t], "loopaset", t)

setLoopA(s, time) ==
    LET s1 == [s EXCEPT !.loopA = IF time # NULL THEN time ELSE s.currentTime]
        s2 == emit(s1, "loopaset", s1.loopA)
    IN IF s2.loopB # NULL /\ s2.loopA > s2.loopB
       THEN LET s3 == [s2 EXCEPT !.loopA = s2.loopB, !.loopB = s2.loopA]
            IN emit(s3, "loopbset", s3.loopB)
       ELSE s2

\* Mutant of setLoopB: the bounds are not swapped.
setLoopB_NoSwap(s, time) ==
    LET s1 == [s EXCEPT !.loopB = IF time # NULL THEN time ELSE s.currentTime]
    IN emit(s1, "loopbset", s1.loopB)

setLoopB(s, time) ==
    LET s1 == [s EXCEPT !.loopB = IF time # NULL THEN time ELSE s.currentTime]
        s2 == emit(s1, "loopbset", s1.loopB)
    IN IF s2.loopA # NULL /\ s2.loopB < s2.loopA
       THEN LET s3 == [s2 EXCEPT !.loopA = s2.loopB, !.loopB = s2.loopA]
            IN emit(s3, "loopaset", s3.loopA)
       ELSE s2

\* Mutant of toggleLoop: the bounds are not checked.
toggleLoop_Unguarded(s) ==
    LET s1 == [s EXCEPT !.isLooping = ~s.isLooping]
        s2 == emit(s1, "looptoggle", s1.isLooping)
    IN IF s2.isLooping /\ s2.isPlaying
       THEN startLoopCheck(s2)
       ELSE stopLoopCheck(s2)

toggleLoop(s) ==
    IF s.loopA # NULL /\ s.loopB # NULL
    THEN LET s1 == [s EXCEPT !.isLooping = ~s.isLooping]
             s2 == emit(s1, "looptoggle", s1.isLooping)
         IN IF s2.isLooping /\ s2.isPlaying
            THEN startLoopCheck(s2)
            ELSE stopLoopCheck(s2)
    ELSE s

\* Mutant of clearLoop: isLooping is left as it is.
clearLoop_KeepsLooping(s) ==
    LET s1 == [s EXCEPT !.loopA = NULL, !.loopB = NULL]
    IN emit(stopLoopCheck(s1), "loopclear", NULL)

clearLoop(s) ==
    LET s1 == [s EXCEPT !.loopA = NULL, !.loopB = NULL, !.isLooping = FALSE]
    IN emit(stopLoopCheck(s1), "loopclear", NULL)

resetLoopPoints(s) == clearLoop(s)

\* The interval callback when a listener of looped calls a command: the
\* listener runs inside emit, which is the last statement of the callback.
loopCheckReentered(s, command) ==
    LET r == loopCheckCallback(s)
        called == r.emitted # <<>> /\ r.emitted[Len(r.emitted)].ev = "looped"
    IN IF ~called THEN r
       ELSE IF command = "pause" THEN pause(r) ELSE clearLoop(r)

handleLoadedMetadata(s) ==
    LET s1 == [s EXCEPT !.duration = s.audioDuration]
    IN emit(s1, "loadedmetadata", s1.duration)

handleDurationChange(s) ==
    LET s1 == [s EXCEPT !.duration = s.audioDuration]
    IN emit(s1, "durationchange", s1.duration)

\* Mutant of handlePlay: the loop check is not started.
handlePlay_NoLoopCheck(s) ==
    emit([s EXCEPT !.isPlaying = TRUE], "play", NULL)

handlePlay(s) ==
    emit(startLoopCheck([s EXCEPT !.isPlaying = TRUE]), "play", NULL)

handlePause(s) ==
    emit(stopLoopCheck([s EXCEPT !.isPlaying = FALSE]), "pause", NULL)

handleEnded(s) ==
    emit(stopLoopCheck([s EXCEPT !.isPlaying = FALSE]), "ended", NULL)

handleTimeUpdate(s) ==
    LET s1 == [s EXCEPT !.currentTime = s.audioTime, !.justLooped = FALSE]
    IN emit(s1, "timeupdate", s1.currentTime)

handleRateChange(s) ==
    LET s1 == [s EXCEPT !.playbackRate = s.audioRate]
    IN emit(s1, "ratechange", s1.playbackRate)

handleError(s) == emit(s, "error", NULL)

\* getState().hasFile.  A URL string given to loadAudio is not empty.
hasFile(s) == s.resource.currentFile # NULL \/ s.resource.currentUrl # NULL

\* URL.createObjectURL: a new object URL, which stays allocated until it is
\* revoked.
createObjectURL(s) ==
    [s EXCEPT !.resource.created = @ + 1,
              !.resource.live = @ \cup {s.resource.created + 1}]

\* URL.revokeObjectURL.
revokeObjectURL(s, url) == [s EXCEPT !.resource.live = @ \ {url}]

\* loadAudio up to its await, for a source that is a File ("file"), a URL
\* string ("url") or neither ("invalid"): src is assigned, the promise's
\* listeners are added, load() is called.  An invalid source throws before
\* that, and the catch block emits error.
loadAudio(s, source) ==
    LET s1 == emit(s, "loadstart", NULL)
        u == createObjectURL(s1)
        s2 == IF source = "file"
              THEN [AudioLoad(u, "loading") EXCEPT
                       !.resource.currentFile = 1,
                       !.resource.currentUrl = u.resource.created]
              ELSE [AudioLoad(s1, "loading") EXCEPT
                       !.resource.currentFile = NULL,
                       !.resource.currentUrl = 0]
        s3 == [s2 EXCEPT !.loadWaiters = @ + 1]
    IN IF source = "invalid"
       THEN emit(s1, "error", NULL)
       ELSE AudioLoad(s3, "loading")

\* Mutant of loadResolved: the loop points are not reset.
loadResolved_NoReset(s) == emit(s, "loaded", s.duration)

\* loadAudio after its await, when onLoadedMetadata resolved the promise.
loadResolved(s) == emit(resetLoopPoints(s), "loaded", s.duration)

\* Mutant of loadRejected: a failed load resets the loop points.
loadRejected_Resets(s) == emit(resetLoopPoints(s), "error", NULL)

\* loadAudio's catch block, when onError rejected the promise.
loadRejected(s) == emit(s, "error", NULL)

destroy(s) ==
    LET s1 == pause(s)
        s2 == stopLoopCheck(s1)
        s3 == [s2 EXCEPT !.listening = FALSE, !.observers.registered = <<>>]
        r == IF s3.resource.currentUrl # NULL /\ s3.resource.currentFile # NULL
             THEN revokeObjectURL(s3, s3.resource.currentUrl)
             ELSE s3
        s4 == AudioLoad(r, "emptysrc")
    IN AudioLoad(s4, "emptysrc")

\* ---- Controls ----
\* Pointer positions are pixels from the left edge of the progress bar, which
\* is BarWidth pixels wide.  A fraction or a percentage p is kept as the
\* integer p * BarWidth, so that the fill width holds both the percentages
\* updateProgress writes and the fractions handleDrag writes.
PointerXs == -1..(BarWidth + 1)

BarXs == 0..BarWidth

\* What fraction of a second one unit of a time computed from the fill width
\* is: parseFloat(width) / 100 * duration.
SeekDen == 100 * BarWidth

\* clamp(x / rect.width, 0, 1).
getPercentageFromMouse(x) == clamp(x, 0, BarWidth)

\* The label for n / d seconds: whole seconds, rounded down.
formatTime(n, d) == n \div d

updateProgressVisual(s, percentage) ==
    [s EXCEPT !.controls.fill = clamp(percentage, 0, 100 * BarWidth)]

updateProgress(s, time) ==
    IF s.duration = 0 THEN s
    ELSE LET percentage == (time * 100 * BarWidth) \div s.duration
         IN [updateProgressVisual(s, percentage) EXCEPT
                !.controls.timeText = formatTime(time, 1)]

\* this.player.seek(newTime), for newTime = n / SeekDen seconds, or NaN when
\* n is NULL.  The player's position is in whole seconds.  seek(NaN) assigns
\* NaN to audio.currentTime, which throws and changes nothing.  The call is
\* recorded in scrub.
playerSeek(s, n) ==
    LET s1 == IF n = NULL THEN s ELSE seek(s, n \div SeekDen)
    IN [s1 EXCEPT !.scrub.seeks = @ + 1, !.scrub.lastSeek = n]

\* Mutant of handleDrag: every drag update seeks the player.
handleDrag_LiveSeek(s, x) ==
    IF ~s.controls.isDragging \/ s.duration = 0 THEN s
    ELSE LET percentage == getPercentageFromMouse(x)
             s1 == updateProgressVisual(s, percentage)
             s2 == [s1 EXCEPT !.controls.timeText = formatTime(percentage * s.duration, BarWidth),
                              !.scrub.lastX = x]
         IN seek(s2, (percentage * s.duration) \div BarWidth)

\* handleDrag gives updateProgressVisual the fraction (0 to 1) where it takes
\* a percentage (0 to 100).  scrub.lastX records the position handled.
handleDrag(s, x) ==
    IF ~s.controls.isDragging \/ s.duration = 0 THEN s
    ELSE LET percentage == getPercentageFromMouse(x)
             s1 == updateProgressVisual(s, percentage)
         IN [s1 EXCEPT !.controls.timeText = formatTime(percentage * s.duration, BarWidth),
                       !.scrub.lastX = x]

startDragging(s, x) == handleDrag([s EXCEPT !.controls.isDragging = TRUE], x)

\* The fill width is read back as a percentage; an empty width parses to NaN.
stopDragging(s) ==
    IF ~s.controls.isDragging THEN s
    ELSE LET s1 == [s EXCEPT !.controls.isDragging = FALSE]
             newTime == IF s1.controls.fill = NULL THEN NULL
                        ELSE s1.controls.fill * s1.duration
         IN playerSeek(s1, newTime)

seekToPosition(s, x) ==
    IF s.duration = 0 THEN s
    ELSE playerSeek(s, 100 * getPercentageFromMouse(x) * s.duration)

\* The listeners of setupProgressBarListeners.
onMouseDown(s, button, x) ==
    IF button = 0
    THEN startDragging([s EXCEPT !.controls.isMouseDown = TRUE], x)
    ELSE s

onMouseMove(s, x) ==
    IF s.controls.isMouseDown /\ s.controls.isDragging THEN handleDrag(s, x) ELSE s

onMouseUp(s) ==
    IF s.controls.isMouseDown
    THEN stopDragging([s EXCEPT !.controls.isMouseDown = FALSE])
    ELSE s

onTouchStart(s, x) == startDragging(s, x)

onTouchMove(s, x) == IF s.controls.isDragging THEN handleDrag(s, x) ELSE s

onTouchEnd(s) == stopDragging(s)

onClick(s, x) == IF ~s.controls.isDragging THEN seekToPosition(s, x) ELSE s

\* Mutant of onTimeUpdate: the progress display follows every tick.
onTimeUpdate_Unguarded(s, time) == updateProgress(s, time)

\* The listener Controls registers for the player's timeupdate event.
onTimeUpdate(s, time) ==
    IF ~s.controls.isDragging THEN updateProgress(s, time) ELSE s

\* Controls' listeners handle the events es that the player emitted.
RECURSIVE NotifyControls(_, _)
NotifyControls(s, es) ==
    IF es = <<>> THEN s
    ELSE LET e == Head(es)
         IN NotifyControls(IF e.ev = "timeupdate" THEN onTimeUpdate(s, e.data) ELSE s,
                           Tail(es))

\* ---- the event loop ----
\* The continuations of n play() calls whose promise is resolved.
RECURSIVE PlaysResolved(_, _)
PlaysResolved(s, n) == IF n = 0 THEN s ELSE PlaysResolved(playResolved(s), n - 1)

\* The continuations of n play() calls whose promise is rejected.
RECURSIVE PlaysRejected(_, _)
PlaysRejected(s, n) == IF n = 0 THEN s ELSE PlaysRejected(playRejected(s), n - 1)

\* The continuations of n loadAudio() calls whose promise is resolved.
RECURSIVE LoadsResolved(_, _)
LoadsResolved(s, n) == IF n = 0 THEN s ELSE LoadsResolved(loadResolved(s), n - 1)

\* The continuations of n loadAudio() calls whose promise is rejected.
RECURSIVE LoadsRejected(_, _)
LoadsRejected(s, n) == IF n = 0 THEN s ELSE LoadsRejected(loadRejected(s), n - 1)

\* Promise continuations queued while a task ran, run when it has returned.
RECURSIVE RunMicrotasks(_)
RunMicrotasks(s) ==
    IF s.microtasks = <<>> THEN s
    ELSE LET m == Head(s.microtasks)
             r == [s EXCEPT !.microtasks = Tail(@)]
         IN RunMicrotasks(IF m = "playResolved" THEN playResolved(r) ELSE playRejected(r))

\* ---- KeyboardHandler: the speed shortcuts ----
\* Array.prototype.indexOf, with indices from 0 and -1 for an absent value.
indexOf(seq, x) ==
    IF \E i \in 1..Len(seq) : seq[i] = x
    THEN (CHOOSE i \in 1..Len(seq) :
             seq[i] = x /\ \A j \in 1..(i - 1) : seq[j] # x) - 1
    ELSE -1

\* findIndex over the options in order (direction > 0: the first option
\* above the rate) or over the reversed options mapped back (the last option
\* below the rate); -1 when there is none.
closestIndex(currentRate, direction) ==
    LET n == Len(speedOptions)
        above == {i \in 0..(n - 1) : speedOptions[i + 1] > currentRate}
        below == {i \in 0..(n - 1) : speedOptions[i + 1] < currentRate}
    IN IF direction > 0
       THEN IF above = {} THEN -1 ELSE CHOOSE i \in above : \A j \in above : i <= j
       ELSE IF below = {} THEN -1 ELSE CHOOSE i \in below : \A j \in below : i >= j

handleSpeedChange(s, direction) ==
    IF ~hasFile(s) THEN s
    ELSE LET currentRate == s.playbackRate
             currentIndex == indexOf(speedOptions, currentRate)
             targetIndex == closestIndex(currentRate, direction)
             newIndex == currentIndex + direction
         IN IF currentIndex = -1
            THEN IF targetIndex # -1
                 THEN setPlaybackRate(s, speedOptions[targetIndex + 1])
                 ELSE s
            ELSE IF newIndex >= 0 /\ newIndex < Len(speedOptions)
                 THEN setPlaybackRate(s, speedOptions[newIndex + 1])
                 ELSE s

\* The listeners AudioPlayer registered on the audio element, per queued task.
RunTask(s, t) ==
    CASE t.ev = "play" -> handlePlay(s)
      [] t.ev = "resolve" -> PlaysResolved(s, t.n)
      [] t.ev = "pause" ->
            PlaysRejected(handlePause(handleTimeUpdate(s)), t.n)
      [] t.ev = "timeupdate" -> handleTimeUpdate(s)
      [] t.ev = "ratechange" -> handleRateChange(s)
      [] t.ev = "ended" ->
            LET s1 == handleTimeUpdate(s)
                s2 == IF HasEnded(s1) /\ ~s1.audioPaused
                      THEN handlePause([s1 EXCEPT !.audioPaused = TRUE])
                      ELSE s1
            IN handleEnded(s2)
      [] t.ev = "loadedmetadata" ->
            LET s1 == handleLoadedMetadata(handleDurationChange(s))
            IN [LoadsResolved(s1, s1.loadWaiters) EXCEPT !.loadWaiters = 0]
      [] t.ev = "error" ->
            LET s1 == handleError(s)
                s2 == [LoadsRejected(s1, s1.loadWaiters) EXCEPT !.loadWaiters = 0]
            IN PlaysRejected(s2, t.n)

Bounded(s) ==
    /\ Len(s.tasks) <= MaxTasks
    /\ s.pendingPlay <= MaxPending
    /\ s.loadWaiters <= Max(MaxLoads, loadWaiters)

Do(s, op, time) ==
    LET r == RunMicrotasks(s)
    IN Bounded(r) /\ Commit(r, op, time)

\* ---- commands ----
\* The application destroys the player when the page unloads and issues no
\* command after that, except that it may call destroy again.
Play == listening /\ Do(play(Cur), "play", NULL)

Pause == listening /\ Do(pause(Cur), "pause", NULL)

TogglePlayPause == listening /\ Do(togglePlayPause(Cur), "togglePlayPause", NULL)

SeekArgs == -1..(MaxDuration + 1)

\* Arguments that clamp to the same position give the same step once.
Seek == listening /\ \E r \in {seek(Cur, t) : t \in SeekArgs} : Do(r, "seek", NULL)

SetLoopA == listening /\ \E t \in TimeArgs : Do(setLoopA(Cur, t), "setLoopA", t)

SetLoopB == listening /\ \E t \in TimeArgs : Do(setLoopB(Cur, t), "setLoopB", t)

ToggleLoop == listening /\ Do(toggleLoop(Cur), "toggleLoop", NULL)

ClearLoop == listening /\ Do(clearLoop(Cur), "clearLoop", NULL)

\* The source is a URL string; loads of Files are in LoadSpec.
LoadAudio == listening /\ Do(loadAudio(Cur, "url"), "loadAudio", NULL)

Destroy == Do(destroy(Cur), "destroy", NULL)

\* ---- timer and capability steps ----
LoopCheck == \E id \in timers : Do(loopCheckCallback(Cur), "loopCheck", NULL)

ListenerOf(ev) ==
    CASE ev = "play" -> "onPlay"
      [] ev = "resolve" -> "onPlayResolved"
      [] ev = "pause" -> "onPause"
      [] ev = "timeupdate" -> "onTimeUpdate"
      [] ev = "ratechange" -> "onRateChange"
      [] ev = "ended" -> "onEnded"
      [] ev = "loadedmetadata" -> "onLoadedMetadata"
      [] ev = "error" -> "onError"

DispatchTask ==
    /\ tasks # <<>>
    /\ Do(RunTask([Cur EXCEPT !.tasks = Tail(@)], Head(tasks)),
          ListenerOf(Head(tasks).ev), NULL)

\* The source's metadata arrives: the duration is known, and a playing
\* element resolves its pending play() promises.
SourceReady(s, d) ==
    LET s1 == [s EXCEPT !.audioSrc = "ready", !.audioDuration = d]
        s2 == Enqueue(s1, Task("loadedmetadata", 0))
    IN IF ~s2.audioPaused /\ s2.pendingPlay > 0
       THEN Enqueue([s2 EXCEPT !.pendingPlay = 0], Task("resolve", s2.pendingPlay))
       ELSE s2

MetadataReady ==
    \E d \in Durations :
        /\ audioSrc = "loading"
        /\ Do(SourceReady(Cur, d), "metadataReady", NULL)

\* The source cannot be loaded: an error event is queued, which also rejects
\* the pending play() promises.
LoadFails ==
    /\ audioSrc \in {"loading", "emptysrc"}
    /\ LET s1 == [Cur EXCEPT !.audioSrc = "failed", !.pendingPlay = 0]
       IN Do(Enqueue(s1, Task("error", pendingPlay)), "loadFails", NULL)

\* Playback advances; reaching the end queues the ended task.
Advanced(s) ==
    LET s1 == Enqueue([s EXCEPT !.audioTime = @ + 1], Task("timeupdate", 0))
    IN IF HasEnded(s1) THEN Enqueue(s1, Task("ended", 0)) ELSE s1

Advance ==
    /\ audioSrc = "ready" /\ ~audioPaused /\ audioTime < audioDuration
    /\ Do(Advanced(Cur), "advance", NULL)

Init ==
    /\ isPlaying = FALSE
    /\ currentTime = 0
    /\ duration = 0
    /\ loopA = NULL
    /\ loopB = NULL
    /\ isLooping = FALSE
    /\ loopCheckInterval = NULL
    /\ listening = TRUE
    /\ timers = {}
    /\ audioPaused = TRUE
    /\ audioTime = 0
    /\ audioDuration = 0
    /\ audioSrc = "none"
    /\ tasks = <<>>
    /\ pendingPlay = 0
    /\ loadWaiters = 0
    /\ resource = [currentUrl |-> NULL, currentFile |-> NULL, created |-> 0, live |-> {}]
    /\ controls = [isDragging |-> FALSE, isMouseDown |-> FALSE, fill |-> NULL, timeText |-> 0]
    /\ scrub = [pointer |-> "none", x |-> NULL, lastX |-> NULL, seeks |-> 0,
                lastSeek |-> NULL, clickPending |-> FALSE]
    /\ playbackRate = DefaultRate
    /\ audioRate = DefaultRate
    /\ observers = [registered |-> <<>>, invoked |-> <<>>, escaped |-> FALSE]
    /\ emitted = <<>>
    /\ justLooped = FALSE
    /\ stopIssued = FALSE
    /\ lastOp = [op |-> "init", time |-> NULL]

Next ==
    \/ Play
    \/ Pause
    \/ TogglePlayPause
    \/ Seek
    \/ SetLoopA
    \/ SetLoopB
    \/ ToggleLoop
    \/ ClearLoop
    \/ LoadAudio
    \/ Destroy
    \/ LoopCheck
    \/ DispatchTask
    \/ MetadataReady
    \/ LoadFails
    \/ Advance

Spec == Init /\ [][Next]_vars

\* ---- loads of Files, which take object URLs ----
LoadFile ==
    /\ listening /\ resource.created < MaxHandles
    /\ Do(loadAudio(Cur, "file"), "loadAudio", NULL)

LoadInvalid == listening /\ Do(loadAudio(Cur, "invalid"), "loadInvalid", NULL)

LoadNext ==
    \/ LoadFile
    \/ LoadAudio
    \/ LoadInvalid
    \/ Play
    \/ Destroy
    \/ DispatchTask
    \/ MetadataReady
    \/ LoadFails

LoadSpec == Init /\ [][LoadNext]_vars

\* ---- the player with Controls attached: scrubbing the progress bar ----
\* A player step, after which Controls' listeners have handled its events.
DoUI(s, op, time) ==
    LET r == RunMicrotasks(s)
    IN Do(NotifyControls(r, r.emitted), op, time)

\* No other event is handled between a mouseup and the click that follows it.
Idle == listening /\ ~scrub.clickPending

ScrubLoad == Idle /\ DoUI(loadAudio(Cur, "url"), "loadAudio", NULL)

ScrubMetadata ==
    \E d \in Durations :
        /\ Idle /\ audioSrc = "loading"
        /\ DoUI(SourceReady(Cur, d), "metadataReady", NULL)

ScrubPlay == Idle /\ DoUI(play(Cur), "play", NULL)

ScrubAdvance ==
    /\ Idle /\ audioSrc = "ready" /\ ~audioPaused /\ audioTime < audioDuration
    /\ DoUI(Advanced(Cur), "advance", NULL)

ScrubDispatch ==
    /\ Idle /\ tasks # <<>>
    /\ DoUI(RunTask([Cur EXCEPT !.tasks = Tail(@)], Head(tasks)),
            ListenerOf(Head(tasks).ev), NULL)

\* The pointer: one gesture at a time, pressed on the bar, with the primary
\* button or another one.
MouseDown ==
    \E x \in BarXs, button \in {0, 2} :
        /\ Idle /\ scrub.pointer = "none"
        /\ LET s == IF button = 0
                    THEN [Cur EXCEPT !.scrub = [pointer |-> "mouse", x |-> x, lastX |-> NULL,
                                                seeks |-> 0, lastSeek |-> NULL,
                                                clickPending |-> FALSE]]
                    ELSE Cur
           IN Do(onMouseDown(s, button, x), "mouseDown", NULL)

MouseMove ==
    \E x \in PointerXs :
        /\ Idle
        /\ LET s == IF scrub.pointer = "mouse" THEN [Cur EXCEPT !.scrub.x = x] ELSE Cur
           IN Do(onMouseMove(s, x), "mouseMove", NULL)

\* The button is released, over the bar or not; over the bar, a click follows.
MouseUp ==
    \E over \in BOOLEAN :
        /\ Idle /\ scrub.pointer \in {"none", "mouse"}
        /\ over => (scrub.pointer = "mouse" /\ scrub.x \in BarXs)
        /\ LET s == [Cur EXCEPT !.scrub.pointer = "none", !.scrub.clickPending = over]
           IN Do(onMouseUp(s), "mouseUp", NULL)

Click ==
    /\ listening /\ scrub.clickPending
    /\ Do(onClick([Cur EXCEPT !.scrub.clickPending = FALSE], scrub.x), "click", NULL)

TouchStart ==
    \E x \in BarXs :
        /\ Idle /\ scrub.pointer = "none"
        /\ LET s == [Cur EXCEPT !.scrub = [pointer |-> "touch", x |-> x, lastX |-> NULL,
                                           seeks |-> 0, lastSeek |-> NULL,
                                           clickPending |-> FALSE]]
           IN Do(onTouchStart(s, x), "touchStart", NULL)

TouchMove ==
    \E x \in PointerXs :
        /\ Idle /\ scrub.pointer = "touch"
        /\ Do(onTouchMove([Cur EXCEPT !.scrub.x = x], x), "touchMove", NULL)

TouchEnd ==
    /\ Idle /\ scrub.pointer = "touch"
    /\ Do(onTouchEnd([Cur EXCEPT !.scrub.pointer = "none"]), "touchEnd", NULL)

ScrubNext ==
    \/ ScrubLoad
    \/ ScrubMetadata
    \/ ScrubPlay
    \/ ScrubAdvance
    \/ ScrubDispatch
    \/ MouseDown
    \/ MouseMove
    \/ MouseUp
    \/ Click
    \/ TouchStart
    \/ TouchMove
    \/ TouchEnd

ScrubSpec == Init /\ [][ScrubNext]_vars

\* ---- claims ----

\* C1: after any command has returned, if loopA and loopB are both set then
\* loopA <= loopB.
C1_LoopOrdered == (loopA # NULL /\ loopB # NULL) => loopA <= loopB

\* Witness for C1: setLoopA was called with a time past loopB and returned with
\* both bounds set.
C1_Witness ==
    /\ lastOp.op = "setLoopA"
    /\ loopA # NULL /\ loopB # NULL
    /\ lastOp.time = loopB /\ loopA < loopB

\* C2: isLooping is true only if both loop points are set, and clearLoop and a
\* successful load leave isLooping false.
C2_LoopingNeedsBounds ==
    /\ isLooping => (loopA # NULL /\ loopB # NULL)
    /\ lastOp.op = "clearLoop" => ~isLooping
    /\ (lastOp.op = "onLoadedMetadata" /\ \E i \in 1..Len(emitted) : emitted[i].ev = "loaded")
          => (~isLooping /\ loopA = NULL /\ loopB = NULL)

\* Witness for C2: a load completed successfully while looping was on, and
\* left it off.
C2_Witness ==
    /\ lastOp.op = "onLoadedMetadata"
    /\ \E i \in 1..Len(emitted) : emitted[i].ev = "loaded" /\ emitted[i].isLooping = FALSE
    /\ \E i \in 1..Len(emitted) : emitted[i].ev = "loadedmetadata" /\ emitted[i].isLooping
    /\ ~isLooping /\ loopA = NULL /\ loopB = NULL

\* C3: a scheduled loop-check timer implies isPlaying and isLooping.
C3_TimerOnlyWhilePlayingAndLooping ==
    loopCheckInterval # NULL => (isPlaying /\ isLooping)

\* C4: once pause, destroy, clearLoop or a toggleLoop to off has returned, no
\* loop-check timer is scheduled until a later play or toggleLoop to on.
C4_NoTimerAfterStop == stopIssued => loopCheckInterval = NULL

\* The event names delivered by the last operation.
EmittedEvents == {emitted[i].ev : i \in 1..Len(emitted)}

\* A loop check fires in this step, while looping and playing, and samples a
\* time at or past loopB.
LoopCheckCrosses ==
    /\ lastOp'.op = "loopCheck"
    /\ isLooping /\ isPlaying
    /\ currentTime >= ToNumber(loopB)

C6_OneLoopPerCrossing ==
    [][(lastOp'.op = "loopCheck" /\ justLooped) =>
          /\ "looped" \notin EmittedEvents'
          /\ UNCHANGED <<audioTime, tasks>>]_vars

\* The time a setLoopA or setLoopB call of this step sets.
SetTime == IF lastOp'.time # NULL THEN lastOp'.time ELSE currentTime

\* C7: setLoopA(a) with loopB = b < a gives loopA = b, loopB = a, and
\* setLoopB(b) with loopA = a > b gives loopA = b, loopB = a.
C7_SwapNotReject ==
    [][/\ (lastOp'.op = "setLoopA" /\ loopB # NULL /\ SetTime > loopB)
             => (loopA' = loopB /\ loopB' = SetTime)
       /\ (lastOp'.op = "setLoopB" /\ loopA # NULL /\ SetTime < loopA)
             => (loopA' = SetTime /\ loopB' = loopA)]_vars

\* Witness for C7: setLoopB was called with a time before loopA, and the two
\* bounds were swapped.
C7_Witness ==
    /\ lastOp.op = "setLoopB"
    /\ lastOp.time # NULL /\ loopA = lastOp.time /\ loopB > loopA
    /\ EmittedEvents = {"loopaset", "loopbset"}

\* Controls.updateLoopMarker, as a position in seconds: the marker is moved
\* unless the duration is 0.
updateLoopMarker(marker, time, dur) == IF dur = 0 THEN marker ELSE time

\* The markers after Controls has handled the events es, starting from m.
RECURSIVE MarkersAfter(_, _, _)
MarkersAfter(m, es, dur) ==
    IF es = <<>> THEN m
    ELSE LET e == Head(es)
             n == CASE e.ev = "loopaset" -> [m EXCEPT !.a = updateLoopMarker(@, e.data, dur)]
                    [] e.ev = "loopbset" -> [m EXCEPT !.b = updateLoopMarker(@, e.data, dur)]
                    [] e.ev = "loopclear" -> [a |-> NULL, b |-> NULL]
                    [] OTHER -> m
         IN MarkersAfter(n, Tail(es), dur)

\* C8: when setLoopA or setLoopB swaps the bounds, the events it emits leave
\* an observer of the latest loopaset and loopbset payloads (the Controls
\* markers) holding the controller's loopA and loopB.
C8_MarkersFollowSwap ==
    (/\ lastOp.op \in {"setLoopA", "setLoopB"}
     /\ EmittedEvents = {"loopaset", "loopbset"}
     /\ duration # 0)
        => MarkersAfter([a |-> NULL, b |-> NULL], emitted, duration)
              = [a |-> loopA, b |-> loopB]

\* C9: a listener reading the controller's state inside an event callback
\* never sees loopA > loopB, nor isLooping with a bound that is null.
C9_MutateThenNotify ==
    \A i \in 1..Len(emitted) :
        /\ (emitted[i].loopA # NULL /\ emitted[i].loopB # NULL)
              => emitted[i].loopA <= emitted[i].loopB
        /\ emitted[i].isLooping
              => (emitted[i].loopA # NULL /\ emitted[i].loopB # NULL)

\* C10: toggleLoop with a bound null changes neither isLooping, the bounds nor
\* the loop-check schedule and emits nothing; with both bounds set it flips
\* isLooping and emits looptoggle with the new value.
C10_ToggleLoop ==
    [][lastOp'.op = "toggleLoop" =>
          IF loopA = NULL \/ loopB = NULL
          THEN /\ UNCHANGED <<isLooping, loopA, loopB, loopCheckInterval, timers>>
               /\ emitted' = <<>>
          ELSE /\ isLooping' = ~isLooping
               /\ UNCHANGED <<loopA, loopB>>
               /\ listening =>
                     /\ Len(emitted') = 1
                     /\ emitted'[1].ev = "looptoggle"
                     /\ emitted'[1].data = isLooping']_vars

\* Witness for C10: toggleLoop was called with listeners registered and only
\* loopA set, and nothing happened.
C10_Witness ==
    /\ lastOp.op = "toggleLoop"
    /\ listening /\ loopA # NULL /\ loopB = NULL
    /\ ~isLooping /\ emitted = <<>>

\* The progress display: the fill width and the current-time label.
Display == <<controls.fill, controls.timeText>>

\* C11: while a scrub session is active, a timeupdate from the player leaves
\* the progress display as it is although the player's currentTime follows
\* the tick; with no session active, a timeupdate for a track of known
\* duration is shown on the progress display.
C11_TicksSuppressedWhileDragging ==
    [][/\ (controls.isDragging /\ "timeupdate" \in EmittedEvents')
             => (Display' = Display /\ currentTime' = audioTime')
       /\ (~controls.isDragging /\ "timeupdate" \in EmittedEvents' /\ duration' # 0)
             => /\ controls'.fill =
                      clamp((currentTime' * 100 * BarWidth) \div duration', 0, 100 * BarWidth)
                /\ controls'.timeText = currentTime']_vars

\* Witness for C11: during a drag the player handled a tick and moved its
\* currentTime, and the display still shows the dragged position.
C11_Witness ==
    /\ lastOp.op = "onTimeUpdate" /\ "timeupdate" \in EmittedEvents
    /\ controls.isDragging /\ scrub.lastX # NULL
    /\ currentTime > 0 /\ controls.timeText # currentTime
    /\ controls.fill = getPercentageFromMouse(scrub.lastX)

\* C12: a scrub gesture makes no player.seek call while the drag is in
\* progress and exactly one by the time it is over, the click that follows a
\* mouse release over the bar included.
C12_OneSeekPerGesture ==
    /\ scrub.pointer # "none" => scrub.seeks = 0
    /\ (scrub.pointer = "none" /\ scrub.x # NULL) => scrub.seeks = 1

\* C13: the seek made when a scrub gesture is released targets
\* clamp(pointer fraction, 0, 1) x duration for the last pointer position
\* handled during the drag.
C13_CommitsProvisionalTime ==
    [][(/\ lastOp'.op \in {"mouseUp", "touchEnd"}
        /\ controls.isDragging /\ ~controls'.isDragging
        /\ scrub.lastX # NULL /\ duration # 0)
          => scrub'.lastSeek = 100 * getPercentageFromMouse(scrub.lastX) * duration]_vars

\* C14: with the player's duration 0, releasing the pointer, and the click
\* after it, make no player.seek call.
C14_NoSeekAtUnknownDuration ==
    [][(lastOp'.op \in {"mouseUp", "touchEnd", "click"} /\ duration = 0)
          => scrub'.seeks = scrub.seeks]_vars

\* C15: pressing on the bar and dragging change only the provisional
\* display: no player command is called, and the player's state and the
\* audio element are as they were.
C15_DragLeavesPlayerAlone ==
    [][lastOp'.op \in {"mouseDown", "mouseMove", "touchStart", "touchMove"}
          => /\ UNCHANGED <<isPlaying, currentTime, duration, loopA, loopB, isLooping,
                            loopCheckInterval, timers, audioPaused, audioTime,
                            audioDuration, audioSrc, tasks, pendingPlay, loadWaiters>>
             /\ emitted' = <<>>
             /\ scrub'.pointer # "none" => scrub'.seeks = 0]_vars

\* Witness for C15: a drag update moved the display away from the position of
\* a playing track.
C15_Witness ==
    /\ lastOp.op = "touchMove"
    /\ controls.isDragging /\ scrub.lastX = scrub.x
    /\ isPlaying /\ duration # 0
    /\ controls.timeText # currentTime /\ audioTime = currentTime

\* A loadAudio call has just resolved and emitted loaded.
LoadJustResolved ==
    lastOp.op = "onLoadedMetadata" /\ "loaded" \in EmittedEvents

\* C16: when a loadAudio call has resolved, loopA and loopB are null,
\* isLooping is false and no loop check is scheduled.
C16_LoadClearsLoop ==
    LoadJustResolved =>
        /\ loopA = NULL /\ loopB = NULL /\ ~isLooping
        /\ loopCheckInterval = NULL /\ timers = {}

\* Witness for C16: a load resolved for a player that was looping between two
\* distinct points when the metadata arrived.
C16_Witness ==
    /\ LoadJustResolved
    /\ \E i \in 1..Len(emitted) :
          /\ emitted[i].ev = "loadedmetadata"
          /\ emitted[i].isLooping /\ emitted[i].loopA < emitted[i].loopB
    /\ loopA = NULL /\ loopB = NULL /\ ~isLooping /\ timers = {}

\* C17: when a loadAudio call has resolved, isPlaying is false and
\* currentTime is 0.
C17_LoadResetsPlayback == LoadJustResolved => (~isPlaying /\ currentTime = 0)

\* C18: an object URL that is allocated is the current source, and none is
\* allocated once destroy has been called.
C18_HandlesReleased ==
    /\ resource.live \subseteq {resource.currentUrl}
    /\ ~listening => resource.live = {}

\* C19: a step that handles a capability error, a failed load included,
\* leaves loopA, loopB and isLooping as they were, and a loop point becomes
\* null only by clearLoop or by a load that resolved.
C19_LoopSurvivesErrors ==
    [][/\ lastOp'.op \in {"onError", "loadFails"} => UNCHANGED <<loopA, loopB, isLooping>>
       /\ ((loopA # NULL /\ loopA' = NULL) \/ (loopB # NULL /\ loopB' = NULL))
             => (lastOp'.op = "clearLoop" \/ LoadJustResolved')]_vars

\* The number of error events the last step delivered.
ErrorsEmitted == Cardinality({i \in 1..Len(emitted) : emitted[i].ev = "error"})

\* Witness for C19: a load failed while looping was on, and the loop
\* configuration is still there.
C19_Witness ==
    /\ lastOp.op = "onError" /\ ErrorsEmitted >= 2
    /\ isLooping /\ loopA # NULL /\ loopB # NULL /\ loopA < loopB

\* C20: a load that fails, with one loadAudio call waiting and no play()
\* promise pending, delivers one error event.
C20_OneErrorPerFailure ==
    [][(/\ lastOp'.op = "onError" /\ listening
        /\ loadWaiters = 1 /\ tasks # <<>> /\ Head(tasks).n = 0)
          => ErrorsEmitted' = 1]_vars

\* ---- a fatal error of the capability while a track plays ----
\* The media data cannot be decoded further: the element fires error and
\* playback stops; the element's paused attribute stays false and no pause
\* event is fired.
MediaError ==
    /\ audioSrc = "ready" /\ ~audioPaused
    /\ Do(Enqueue([Cur EXCEPT !.audioSrc = "broken"], Task("error", 0)),
          "mediaError", NULL)

ErrorNext ==
    \/ LoadAudio
    \/ MetadataReady
    \/ Play
    \/ Pause
    \/ SetLoopA
    \/ SetLoopB
    \/ ToggleLoop
    \/ LoopCheck
    \/ DispatchTask
    \/ Advance
    \/ MediaError

ErrorSpec == Init /\ [][ErrorNext]_vars

\* C21: the step that handles a capability error reported while the
\* controller was playing leaves isPlaying false and no loop-check timer
\* scheduled.
C21_ErrorStopsTransport ==
    [][(lastOp'.op = "onError" /\ isPlaying)
          => (~isPlaying' /\ loopCheckInterval' = NULL /\ timers' = {})]_vars

\* C22: while no source has been given to the capability, a play() leaves
\* isPlaying false and schedules no loop check.
C22_PlayWithoutSourceStaysIdle ==
    audioSrc = "none" => (~isPlaying /\ loopCheckInterval = NULL /\ timers = {})

\* C23: while no load has succeeded (the duration is still 0) and none is
\* under way, getState().hasFile is false; in particular it is false after a
\* loadAudio that failed.
C23_HasFileOnlyWhenLoaded ==
    (duration = 0 /\ audioSrc \in {"none", "failed"} /\ loadWaiters = 0)
        => ~hasFile(Cur)

\* C24: once destroy has run, no loop-check timer is scheduled and no event
\* is delivered to a listener, whatever callbacks of the capability and
\* timers run afterwards; and a destroy of a destroyed controller leaves
\* the controller's state and its timers as they were.
C24_DestroyIsFinal ==
    [][/\ ~listening' => (loopCheckInterval' = NULL /\ timers' = {} /\ emitted' = <<>>)
       /\ (lastOp'.op = "destroy" /\ ~listening)
             => UNCHANGED <<isPlaying, currentTime, duration, loopA, loopB,
                            isLooping, loopCheckInterval, timers, listening,
                            resource, playbackRate>>]_vars

\* ---- playback rate: the rate command, the speed shortcuts, loads ----
RateArgs == 0..(MaxRate + 2)

SetPlaybackRate ==
    listening /\ \E rate \in RateArgs :
        Do(setPlaybackRate(Cur, rate), "setPlaybackRate", rate)

ArrowUp == listening /\ Do(handleSpeedChange(Cur, 1), "arrowUp", NULL)

ArrowDown == listening /\ Do(handleSpeedChange(Cur, -1), "arrowDown", NULL)

RateNext ==
    \/ SetPlaybackRate
    \/ ArrowUp
    \/ ArrowDown
    \/ LoadAudio
    \/ MetadataReady
    \/ DispatchTask

RateSpec == Init /\ [][RateNext]_vars

\* C25: a setPlaybackRate(rate) leaves the stored playbackRate, and the rate
\* of the capability, at clamp(rate, 0.25, 2.0) and delivers one ratechange
\* event that carries that value.
C25_RateClamped ==
    [][lastOp'.op = "setPlaybackRate"
          => /\ playbackRate' = clamp(lastOp'.time, MinRate, MaxRate)
             /\ audioRate' = playbackRate'
             /\ Len(emitted') = 1
             /\ emitted'[1].ev = "ratechange"
             /\ emitted'[1].data = playbackRate']_vars

\* Witness for C25: a rate above the range was given and clamped to 2.0.
C25_Witness ==
    /\ lastOp.op = "setPlaybackRate" /\ lastOp.time > MaxRate
    /\ playbackRate = MaxRate
    /\ emitted # <<>> /\ emitted[1].data = MaxRate

\* C26: the stored playbackRate is within [0.25, 2.0] in every state.
C26_RateInRange == playbackRate \in MinRate..MaxRate

\* Witness for C26: a rate-change callback of the capability was handled
\* after a load, and the stored rate is at the end of the range.
C26_Witness ==
    /\ lastOp.op = "onRateChange" /\ audioSrc = "ready"
    /\ playbackRate = MaxRate

\* C30: with a file loaded, ArrowUp raises the rate by exactly 0.25 from any
\* rate below 2.0, and ArrowDown lowers it by exactly 0.25 from any rate
\* above 0.25.
C30_SpeedStepIsQuarter ==
    [][/\ (lastOp'.op = "arrowUp" /\ hasFile(Cur)
             /\ playbackRate >= MinRate /\ playbackRate < MaxRate)
          => playbackRate' = playbackRate + 1
       /\ (lastOp'.op = "arrowDown" /\ hasFile(Cur)
             /\ playbackRate > MinRate /\ playbackRate <= MaxRate)
          => playbackRate' = playbackRate - 1]_vars

\* ---- seeks with their arguments recorded ----
SeekOffsets == (0 - (MaxDuration + 1))..(MaxDuration + 1)

SeekTo == listening /\ \E t \in SeekArgs : Do(seek(Cur, t), "seekTo", t)

SeekBy ==
    listening /\ \E offset \in SeekOffsets :
        Do(seekBy(Cur, offset), "seekBy", offset)

SeekNext ==
    \/ SeekTo
    \/ SeekBy
    \/ LoadAudio
    \/ MetadataReady
    \/ Play
    \/ Advance
    \/ DispatchTask

SeekSpec == Init /\ [][SeekNext]_vars

\* The position of the capability after audio.currentTime = t: a loaded
\* track limits it to its own duration.
PositionAfter(t) ==
    IF audioSrc = "ready" THEN clamp(t, 0, audioDuration) ELSE t

\* C27: seek(time) assigns clamp(time, 0, duration) to the capability's
\* position; the position that results is within [0, duration], and equals
\* the clamped time when the stored duration is that of the loaded track.
C27_SeekClamps ==
    [][lastOp'.op = "seekTo"
          => /\ audioTime' = PositionAfter(clamp(lastOp'.time, 0, duration))
             /\ audioTime' >= 0 /\ audioTime' <= duration
             /\ (audioSrc = "ready" /\ audioDuration = duration)
                   => audioTime' = clamp(lastOp'.time, 0, duration)]_vars

\* Witness for C27: a seek past the end of a loaded track landed on its
\* duration.
C27_Witness ==
    /\ lastOp.op = "seekTo" /\ lastOp.time > duration
    /\ audioSrc = "ready" /\ audioDuration = duration /\ duration > 0
    /\ audioTime = duration

\* C28: seekBy(offset) seeks to clamp(currentTime + offset, 0, duration),
\* with the stored currentTime; the position that results is within
\* [0, duration].
C28_SeekByFromStoredTime ==
    [][lastOp'.op = "seekBy"
          => /\ audioTime' = PositionAfter(clamp(currentTime + lastOp'.time, 0, duration))
             /\ audioTime' >= 0 /\ audioTime' <= duration
             /\ (audioSrc = "ready" /\ audioDuration = duration)
                   => audioTime' = clamp(currentTime + lastOp'.time, 0, duration)]_vars

\* Witness for C28: a negative offset larger than the stored time of a
\* loaded, playing track moved the position to 0.
C28_Witness ==
    /\ lastOp.op = "seekBy" /\ currentTime > 0 /\ currentTime + lastOp.time < 0
    /\ audioSrc = "ready" /\ audioDuration = duration
    /\ audioTime = 0

\* ---- observers registered with on() ----
ObservedEvents == {"loopaset", "loopbset"}

On ==
    /\ listening /\ Len(observers.registered) < MaxObservers
    /\ \E event \in ObservedEvents, throws \in BOOLEAN :
          Do(on(Cur, event, throws), "on", NULL)

EmitNext ==
    \/ On
    \/ SetLoopA
    \/ SetLoopB
    \/ ToggleLoop
    \/ ClearLoop

EmitSpec == Init /\ [][EmitNext]_vars

\* How often the last step called the callback at position i, and how often
\* it emitted the event ev.
Invocations(i) ==
    Cardinality({k \in 1..Len(observers.invoked) : observers.invoked[k] = i})

Emissions(ev) == Cardinality({k \in 1..Len(emitted) : emitted[k].ev = ev})

\* C29: every callback registered for an event is called once for each
\* emission of that event, whether or not another callback of the event
\* throws, and no exception leaves emit.
C29_ObserversIsolated ==
    /\ ~observers.escaped
    /\ \A i \in 1..Len(observers.registered) :
          Invocations(i) = Emissions(observers.registered[i].ev)

\* Witness for C29: an event was emitted to a callback that throws and to a
\* callback registered after it for the same event, and both were called.
C29_Witness ==
    \E i, j \in 1..Len(observers.registered) :
        /\ i < j
        /\ observers.registered[i].throws
        /\ observers.registered[i].ev = observers.registered[j].ev
        /\ Invocations(i) = 1 /\ Invocations(j) = 1

\* C31: the A-B segment keeps being replayed while looping is on: when the
\* ended callback of a track whose end is loopB has been handled, the loop
\* check is still scheduled and the controller is still playing, so that the
\* position is taken back to loopA at this and at every later crossing.
C31_LoopSurvivesEnded ==
    (/\ lastOp.op = "onEnded" /\ listening /\ audioSrc = "ready"
     /\ isLooping /\ loopA # NULL /\ loopB # NULL /\ loopA < loopB
     /\ loopB = audioDuration)
        => (isPlaying /\ loopCheckInterval # NULL /\ ~audioPaused)

\* C32: when the play callback of the capability, or the continuation of a
\* play() that succeeded, has been handled and isPlaying and isLooping are
\* true, a loop check is scheduled; and a toggleLoop that turns looping on
\* while isPlaying is true has scheduled one when it returns.
C32_LoopCheckStartsWithPlayback ==
    [][/\ (lastOp'.op \in {"onPlay", "onPlayResolved"} /\ isPlaying' /\ isLooping')
          => (loopCheckInterval' # NULL /\ loopCheckInterval' \in timers')
       /\ (lastOp'.op = "toggleLoop" /\ ~isLooping /\ isLooping' /\ isPlaying')
          => (loopCheckInterval' # NULL /\ loopCheckInterval' \in timers')]_vars

\* Witness for C32: the play callback was handled with looping on, and the
\* loop check it started is scheduled.
C32_Witness ==
    /\ lastOp.op = "onPlay" /\ isPlaying /\ isLooping
    /\ audioSrc = "ready" /\ loopA < loopB
    /\ loopCheckInterval # NULL /\ timers = {loopCheckInterval}

\* C33: at most one loop-check timer exists, and it is the one
\* loopCheckInterval holds, so that one stopLoopCheck cancels every
\* scheduled check.
C33_OneLoopTimer ==
    /\ Cardinality(timers) <= 1
    /\ timers = (IF loopCheckInterval = NULL THEN {} ELSE {loopCheckInterval})
    /\ stopLoopCheck(Cur).timers = {}

\* Witness for C33: the play callback started the loop check and the
\* continuation of play() started it again; one timer is scheduled.
C33_Witness ==
    /\ lastOp.op = "onPlayResolved" /\ isPlaying /\ isLooping
    /\ tasks = <<>> /\ ~audioPaused
    /\ Cardinality(timers) = 1 /\ loopCheckInterval \in timers

\* ---- a listener of looped that calls back into the controller ----
LoopCheckPause ==
    \E id \in timers : Do(loopCheckReentered(Cur, "pause"), "loopCheckPause", NULL)

LoopCheckClear ==
    \E id \in timers : Do(loopCheckReentered(Cur, "clearLoop"), "loopCheckClear", NULL)

ReenterNext ==
    \/ LoadAudio
    \/ MetadataReady
    \/ SetLoopA
    \/ SetLoopB
    \/ ToggleLoop
    \/ Play
    \/ DispatchTask
    \/ Advance
    \/ LoopCheckPause
    \/ LoopCheckClear

ReenterSpec == Init /\ [][ReenterNext]_vars

\* C34: when a loop check whose looped listener called pause() or
\* clearLoop() has finished, no loop check is scheduled and the loop
\* invariants hold; and from then until a later play or toggleLoop to on, no
\* loop check emits looped.
C34_ReentrantStopIsClean ==
    [][/\ (lastOp'.op \in {"loopCheckPause", "loopCheckClear"}
             /\ "looped" \in EmittedEvents')
          => /\ loopCheckInterval' = NULL /\ timers' = {}
             /\ (loopA' # NULL /\ loopB' # NULL) => loopA' <= loopB'
             /\ isLooping' => (loopA' # NULL /\ loopB' # NULL)
       /\ stopIssued => "looped" \notin EmittedEvents']_vars

\* C35: seek(time) changes no field of the controller's state and emits
\* nothing; the stored currentTime changes when a timeupdate callback is
\* handled, which sets it to the position of the capability.
C35_SeekIsNotEager ==
    [][/\ lastOp'.op = "seekTo"
          => /\ UNCHANGED <<currentTime, isPlaying, duration, loopA, loopB,
                            isLooping, loopCheckInterval, timers, playbackRate>>
             /\ emitted' = <<>>
       /\ currentTime' # currentTime
          => (lastOp'.op \in {"onTimeUpdate", "onPause", "onEnded"}
              /\ currentTime' = audioTime)]_vars

\* Witness for C35: a seek moved the position of a loaded track and the
\* stored currentTime still holds the earlier position.
C35_Witness ==
    /\ lastOp.op = "seekTo" /\ audioSrc = "ready"
    /\ audioTime = clamp(lastOp.time, 0, duration)
    /\ currentTime # audioTime

\* A play event of the capability is queued.
PlayQueued(q) == \E i \in 1..Len(q) : q[i].ev = "play"

\* C36: when the ended callback has been handled, isPlaying is false, no
\* loop check is scheduled and the loop points are as before; and a play()
\* issued next on the loaded track restarts playback: the capability plays
\* and its play callback, which sets isPlaying, is queued.
C36_EndedIsNotTerminal ==
    [][/\ lastOp'.op = "onEnded"
          => /\ ~isPlaying' /\ loopCheckInterval' = NULL /\ timers' = {}
             /\ UNCHANGED <<loopA, loopB>>
       /\ (lastOp.op = "onEnded" /\ lastOp'.op = "play" /\ audioSrc = "ready")
          => (~audioPaused' /\ PlayQueued(tasks'))]_vars

\* C37: with a source given to the capability, the step that handles the
\* capability's answer to a pause() delivers no error event, also when a
\* play() was pending at the time of the pause().
C37_PauseNeverReportsError ==
    [][(lastOp'.op = "onPause" /\ audioSrc \in {"loading", "ready"})
          => "error" \notin EmittedEvents']_vars

\* ---- two togglePlayPause calls with no callback in between ----
ToggleTwice ==
    listening /\ Do(togglePlayPause(togglePlayPause(Cur)), "toggleTwice", NULL)

ToggleNext ==
    \/ LoadAudio
    \/ MetadataReady
    \/ TogglePlayPause
    \/ ToggleTwice
    \/ DispatchTask
    \/ Advance

ToggleSpec == Init /\ [][ToggleNext]_vars

\* C38: two togglePlayPause calls issued back to back on a loaded track,
\* from a state where every callback of the capability has been delivered,
\* leave the capability playing if it was playing and paused if it was
\* paused.
C38_TogglesCancel ==
    [][(/\ lastOp'.op = "toggleTwice" /\ audioSrc = "ready"
        /\ tasks = <<>> /\ isPlaying = ~audioPaused)
          => audioPaused' = audioPaused]_vars

\* ---- a loadAudio started while an earlier one waits for its metadata ----
LoadAgain ==
    /\ listening /\ audioSrc = "loading" /\ loadWaiters >= 1
    /\ LET r == RunMicrotasks(loadAudio(Cur, "url"))
       IN /\ r.loadWaiters <= MaxOverlap
          /\ Len(r.tasks) <= MaxTasks /\ r.pendingPlay <= MaxPending
          /\ Commit(r, "loadAgain", NULL)

OverlapNext ==
    \/ LoadAudio
    \/ LoadAgain
    \/ MetadataReady
    \/ LoadFails
    \/ Play
    \/ DispatchTask

OverlapSpec == Init /\ [][OverlapNext]_vars

\* C39: when the metadata of the source that is bound arrives, one loaded
\* event is delivered, however many loadAudio calls were waiting, and no
\* loadAudio call is left waiting once the metadata or an error was handled.
C39_OneLoadedPerBoundSource ==
    [][/\ (lastOp'.op = "onLoadedMetadata" /\ listening /\ loadWaiters >= 1)
          => Emissions("loaded")' = 1
       /\ lastOp'.op \in {"onLoadedMetadata", "onError"} => loadWaiters' = 0]_vars

====
